---- MODULE Spec2Model ----
(***************************************************************************)
(* Session lifecycle of the CustomarioAI front end.                        *)
(*                                                                         *)
(*   SpecVoice : services/voiceAgent.ts, the VoiceAgent class driving one  *)
(*               or more RealtimeSession objects (start, stop, the         *)
(*               history_updated and agent_end listeners, the delayed      *)
(*               completion timer, complete and cleanup).                  *)
(*   SpecPanel : pages/UserExperience.tsx and components/FeedbackPanel.tsx *)
(*               (session timers, the end-of-session earnings and payment  *)
(*               effect, paymentService.sendPayment).                      *)
(*                                                                         *)
(* Text is kept as TLA+ strings; toLowerCase, includes, trim and the       *)
(* transcript formatting are computed character by character.              *)
(***************************************************************************)
EXTENDS Integers, Sequences, FiniteSets, TLC

\* ------------------------------------------------------------------------
\* Bounds of the model
\* ------------------------------------------------------------------------
MaxStarts == 2
MaxTimers == 1
TickMs == 1500
MaxSessions == 2
MaxPanelTicks == 5
PanelTickMs == 200000
PageLoadMs == 1000
IdleStepMs == 10000
MaxIdleSteps == 4
IdleLimitMs == 30000
MaxMessages == 4
MaxBackendSessions == 2

\* ------------------------------------------------------------------------
\* Program constants
\* ------------------------------------------------------------------------
GraceMs == 1500

\* the length below which the test guide calls a transcript too short
MinTranscriptChars == 50

ClosingPhrases ==
  << "thank you for your feedback",
     "completes our survey",
     "thank you so much for your time",
     "that completes the survey" >>

\* ------------------------------------------------------------------------
\* String helpers (String.prototype.toLowerCase / includes / trim)
\* ------------------------------------------------------------------------
UpperChars == "ABCDEFGHIJKLMNOPQRSTUVWXYZ"
LowerChars == "abcdefghijklmnopqrstuvwxyz"

CharAt(s, i) == SubSeq(s, i, i)

LowerChar(c) ==
  IF \E i \in 1..26 : CharAt(UpperChars, i) = c
    THEN CharAt(LowerChars, CHOOSE i \in 1..26 : CharAt(UpperChars, i) = c)
    ELSE c

RECURSIVE toLowerCase(_)
toLowerCase(s) ==
  IF Len(s) = 0 THEN ""
  ELSE LowerChar(CharAt(s, 1)) \o toLowerCase(SubSeq(s, 2, Len(s)))

includes(s, p) ==
  \E i \in 1..(Len(s) - Len(p) + 1) : SubSeq(s, i, i + Len(p) - 1) = p

IsSpace(c) == c \in {" ", "\n", "\t"}

RECURSIVE trimStart(_)
trimStart(s) ==
  IF Len(s) > 0 /\ IsSpace(CharAt(s, 1))
    THEN trimStart(SubSeq(s, 2, Len(s)))
    ELSE s

RECURSIVE trimEnd(_)
trimEnd(s) ==
  IF Len(s) > 0 /\ IsSpace(CharAt(s, Len(s)))
    THEN trimEnd(SubSeq(s, 1, Len(s) - 1))
    ELSE s

trim(s) == trimEnd(trimStart(s))

\* ------------------------------------------------------------------------
\* Inputs of the voice agent: conversation histories (RealtimeItem[]) and
\* agent_end outputs
\* ------------------------------------------------------------------------
Msg(role, ctype, text, transcript) ==
  [type |-> "message", role |-> role,
   content |-> << [type |-> ctype, text |-> text, transcript |-> transcript] >>]

ItemQuestion == Msg("assistant", "output_audio", "", "How was checkout? ")
ItemAnswer == Msg("user", "input_audio", "", "Great product")
ItemTool == [type |-> "function_call", role |-> "assistant", content |-> << >>]
ItemClosingPartial == Msg("assistant", "output_audio", "", "Thank you for your fee")
ItemClosing == Msg("assistant", "output_text", "Thank you for your feedback!", "")

Histories ==
  { << ItemQuestion, ItemAnswer, ItemClosingPartial >>,
    << ItemQuestion, ItemTool, ItemAnswer, ItemClosing >> }

Outputs ==
  { "",
    "Thank you for your fee",
    "That completes our SURVEY. Thank you for your feedback!" }

Sids == 1..MaxStarts

\* ------------------------------------------------------------------------
\* State
\* ------------------------------------------------------------------------
VARIABLES
  isActive,      \* VoiceAgent.isActive
  session,       \* VoiceAgent.session: id of the RealtimeSession, 0 = null
  transcript,    \* VoiceAgent.transcript: sequence of VoiceMessage
  rt,            \* state of each RealtimeSession object created by start()
  startPc,       \* position of each start() invocation
  timers,        \* pending setTimeout(() => this.complete(), 1500) callbacks
  onCompleteCalls, \* calls of onComplete since isActive was last switched on
  lastComplete,  \* the last call of onComplete: its argument and its cause
  noops,         \* the callers of complete() that returned at its guard
                 \* since isActive was last switched on
  lastOutput,    \* the output of the last agent_end event
  recording,     \* the history below is kept (fixed for a behaviour)
  stopPending,   \* stop() returned at the guard of complete() while a
                 \* start() was awaiting, and start() was not called since
  transcriptStale \* this.transcript holds messages, and no history_updated
                 \* event arrived since start() was last called

ghostVars == << recording, stopPending, transcriptStale >>

voiceVars ==
  << isActive, session, transcript, rt, startPc, timers, onCompleteCalls,
     lastComplete, noops, lastOutput, ghostVars >>

\* ------------------------------------------------------------------------
\* VoiceAgent helpers
\* ------------------------------------------------------------------------
\* text of one content part, as selected by syncTranscriptFromHistory
contentText(c) ==
  IF c.type = "input_text" THEN c.text
  ELSE IF c.type = "input_audio" /\ c.transcript # "" THEN c.transcript
  ELSE IF c.type = "output_text" THEN c.text
  ELSE IF c.type = "output_audio" /\ c.transcript # "" THEN c.transcript
  ELSE ""

RECURSIVE contentMessages(_, _)
contentMessages(role, cs) ==
  IF cs = << >> THEN << >>
  ELSE LET text == contentText(Head(cs))
           rest == contentMessages(role, Tail(cs))
       IN IF text # "" /\ trim(text) # ""
            THEN << [type |-> IF role = "user" THEN "user" ELSE "agent",
                     text |-> trim(text)] >> \o rest
            ELSE rest

RECURSIVE historyMessages(_)
historyMessages(history) ==
  IF history = << >> THEN << >>
  ELSE LET item == Head(history)
       IN (IF item.type = "message"
             THEN contentMessages(item.role, item.content)
             ELSE << >>) \o historyMessages(Tail(history))

\* historyMessages, evaluated once for each history of the model
messagesOf == [h \in Histories |-> historyMessages(h)]

\* the value of this.transcript after syncTranscriptFromHistory(history)
syncTranscriptFromHistory(history) ==
  LET messages == messagesOf[history]
  IN IF messages # transcript THEN messages ELSE transcript

\* the transcript text complete() hands to onComplete
RECURSIVE transcriptText(_)
transcriptText(tr) ==
  IF tr = << >> THEN ""
  ELSE LET msg == Head(tr)
           line == (IF msg.type = "user" THEN "User" ELSE "Agent")
                     \o ": " \o msg.text
       IN IF Len(tr) = 1 THEN line
          ELSE line \o "\n\n" \o transcriptText(Tail(tr))

\* a phrase test that compares without lower-casing the text: the variant
\* the case-insensitive matching is measured against
matchesClosingPhrase_caseSensitive(text) ==
  \/ includes(text, ClosingPhrases[1])
  \/ includes(text, ClosingPhrases[2])
  \/ includes(text, ClosingPhrases[3])
  \/ includes(text, ClosingPhrases[4])

\* the condition of checkSurveyCompletion
matchesClosingPhrase(text) ==
  LET lowerText == toLowerCase(text)
  IN \/ includes(lowerText, ClosingPhrases[1])
     \/ includes(lowerText, ClosingPhrases[2])
     \/ includes(lowerText, ClosingPhrases[3])
     \/ includes(lowerText, ClosingPhrases[4])

\* matchesClosingPhrase, evaluated once for each output of the model
closingMatch == [o \in Outputs |-> matchesClosingPhrase(o)]

\* a completion without grace period: the variant the 1.5 s delay is
\* measured against
completionDelay_immediate == GraceMs - GraceMs

\* the delay checkSurveyCompletion passes to setTimeout
completionDelay == GraceMs

\* the timers after checkSurveyCompletion(text)
checkSurveyCompletion(text) ==
  IF closingMatch[text]
    THEN Append(timers, [delay |-> completionDelay, age |-> 0,
                         updated |-> FALSE, late |-> FALSE])
    ELSE timers

\* a cleanup() that leaves isActive as it is: the variant the guard of
\* complete() is measured against
cleanup_keepsActive ==
  /\ rt' = IF session # 0 THEN [rt EXCEPT ![session] = "closed"] ELSE rt
  /\ session' = 0
  /\ isActive' = isActive

\* cleanup(): close this.session, clear it, clear isActive
cleanup ==
  /\ rt' = IF session # 0 THEN [rt EXCEPT ![session] = "closed"] ELSE rt
  /\ session' = 0
  /\ isActive' = FALSE

\* transcriptText, evaluated once for each transcript of the model
Transcripts == { << >> } \cup { historyMessages(h) : h \in Histories }
textOf == [tr \in Transcripts |-> transcriptText(tr)]

\* the transcript complete() formats
completedTranscript == transcript

\* the pending timers once a session has been completed: they were set in
\* a session that is over
outlived(ts) ==
  [i \in 1..Len(ts) |-> [ts[i] EXCEPT !.late = recording]]

\* complete(): guarded by isActive; onComplete, then cleanup. late: the
\* caller is a timer set in a session that was completed since
complete(cause, waited, updated, late) ==
  IF ~isActive
    THEN /\ noops' = noops \cup {cause}
         /\ UNCHANGED << isActive, session, rt, onCompleteCalls,
                         lastComplete >>
    ELSE /\ onCompleteCalls' = onCompleteCalls + 1
         /\ lastComplete' = [text |-> textOf[completedTranscript],
                             cause |-> cause, waited |-> waited,
                             updated |-> updated, late |-> late,
                             stale |-> transcriptStale]
         /\ cleanup
         /\ UNCHANGED noops

\* ------------------------------------------------------------------------
\* State of the feedback panel (UserExperience + FeedbackPanel + payments)
\* ------------------------------------------------------------------------
VARIABLES
  now,               \* Date.now(), in ms
  surveyId,          \* location.state?.surveyId, 0 = absent
  minPrice,          \* config.minPrice
  maxPrice,          \* config.maxPrice
  isFeedbackActive,  \* UserExperience.isFeedbackActive
  isPaused,          \* UserExperience.isPaused
  isStarting,        \* UserExperience.isStarting
  sessionStartTime,  \* UserExperience.sessionStartTime, -1 = null
  sessionDuration,   \* UserExperience.sessionDuration, in seconds
  pausedDuration,    \* UserExperience.pausedDuration, in ms
  pauseStartTime,    \* UserExperience.pauseStartTime, -1 = null
  sessionId,         \* UserExperience.sessionId, 0 = null
  sessionComplete,   \* FeedbackPanel.sessionComplete
  earnedAmount,      \* FeedbackPanel.earnedAmount, in 1/AmountScale dollars
  payments,          \* calls of paymentService.sendPayment, in order
  route,             \* the page shown: "user" (UserExperience) or "admin"
  sessionNo,         \* number of feedback sessions started so far
  ended,             \* the sessions ended by handleEnd, in order
  call,              \* the call of the Vapi SDK: "none", "starting", "live"
  messageHandlers,   \* VapiService.messageHandlers holds handleVapiMessage
  isCallActive,      \* FeedbackPanel.isCallActive
  lastMuted          \* the last vapiService.setMuted: its argument, and
                     \* the call at that moment

callVars == << call, messageHandlers, isCallActive, lastMuted >>

panelVars ==
  << now, surveyId, minPrice, maxPrice, isFeedbackActive, isPaused,
     isStarting, sessionStartTime, sessionDuration, pausedDuration,
     pauseStartTime, sessionId, sessionComplete, earnedAmount, payments,
     route, sessionNo, ended, callVars >>

\* ------------------------------------------------------------------------
\* State observed around the stream, and the message list of FeedbackPanel
\* ------------------------------------------------------------------------
VARIABLES
  idleMs,         \* time since the live agent last received an event, in ms
  lastInterrupt,  \* the last session.interrupt() that interrupt() issued:
                  \* the state of the session and isActive at that moment
  messages,       \* FeedbackPanel.messages: sequence of [type, text]
  delivered,      \* the Vapi messages handed to handleVapiMessage so far
  bSessions,      \* backend: each session's status, score and payment
  results,        \* backend: the sessions whose completion result was returned
  insightJob,     \* backend: the insight job of the survey, "idle" or "queued"
  report,         \* backend: sessions counted in the insight report, -1 = none
  pageLoading,    \* InsightsPage.loading
  pageError,      \* InsightsPage.error, "" = null
  pageInsights    \* InsightsPage.insights: the report shown, -1 = null

chatVars == << messages, delivered >>

insightVars ==
  << bSessions, results, insightJob, report, pageLoading, pageError,
     pageInsights >>

restVars == << lastInterrupt, chatVars, insightVars >>

auxVars == << idleMs, restVars >>

vars == << voiceVars, panelVars, auxVars >>

\* ------------------------------------------------------------------------
\* VoiceAgent operations
\* ------------------------------------------------------------------------
idleStarts == { k \in Sids : startPc[k] = "idle" }

\* start(): the isActive guard, then await getEphemeralToken()
start ==
  /\ idleStarts # {}
  /\ ~isActive
  /\ LET k == CHOOSE i \in idleStarts : \A j \in idleStarts : i <= j
     IN startPc' = [startPc EXCEPT ![k] = "token"]
  /\ stopPending' = FALSE
  /\ transcriptStale' = (recording /\ transcript # << >>)
  /\ UNCHANGED << recording, isActive, session, transcript, rt, timers,
                  onCompleteCalls, lastComplete, noops, lastOutput, panelVars, auxVars >>

\* start(): the token arrived; new RealtimeSession, setupEventListeners,
\* await this.session.connect()
start_session(k) ==
  /\ startPc[k] = "token"
  /\ startPc' = [startPc EXCEPT ![k] = "connect"]
  /\ session' = k
  /\ rt' = [rt EXCEPT ![k] = "connecting"]
  /\ UNCHANGED << ghostVars, isActive, transcript, timers, onCompleteCalls,
                  lastComplete, noops, lastOutput,
                  panelVars, auxVars >>

\* the outcomes of this.session.sendMessage(...) at the end of start():
\* a TypeError when this.session is null, delivery when it is connected,
\* either of the two when the session object is not connected
sendMessageOutcomes(sess, rtNow) ==
  IF sess = 0 THEN {"throw"}
  ELSE IF rtNow[sess] = "connected" THEN {"ok"}
  ELSE {"ok", "throw"}

\* start(): connect() resolved; isActive = true, sendMessage; the catch
\* block clears isActive again when sendMessage throws
start_connected(k) ==
  /\ startPc[k] = "connect"
  /\ rt[k] \in {"connecting", "closed"}
  /\ LET rtNow == IF rt[k] = "connecting"
                    THEN [rt EXCEPT ![k] = "connected"] ELSE rt
     IN /\ rt' = rtNow
        /\ \E out \in sendMessageOutcomes(session, rtNow) :
             /\ isActive' = (out = "ok")
             /\ startPc' = [startPc EXCEPT ![k] =
                              IF out = "ok" THEN "done" ELSE "failed"]
  /\ onCompleteCalls' = IF isActive THEN onCompleteCalls ELSE 0
  /\ noops' = IF isActive THEN noops ELSE {}
  /\ UNCHANGED << ghostVars, session, transcript, timers, lastComplete, lastOutput, panelVars, restVars >>
  /\ idleMs' = 0

\* start(): getEphemeralToken() or connect() rejected; the catch block
start_catch(k) ==
  /\ startPc[k] \in {"token", "connect"}
  /\ startPc' = [startPc EXCEPT ![k] = "failed"]
  /\ rt' = IF rt[k] = "connecting" THEN [rt EXCEPT ![k] = "failed"] ELSE rt
  /\ isActive' = FALSE
  /\ UNCHANGED << ghostVars, session, transcript, timers, onCompleteCalls,
                  lastComplete, noops, lastOutput,
                  panelVars, auxVars >>

\* stop(): complete()
stop ==
  /\ complete("stop", 0, FALSE, FALSE)
  /\ timers' = IF isActive THEN outlived(timers) ELSE timers
  /\ stopPending' =
       IF recording /\ ~isActive
                    /\ \E k \in Sids : startPc[k] \in {"token", "connect"}
         THEN TRUE ELSE stopPending
  /\ UNCHANGED << transcript, startPc, lastOutput, recording,
                  transcriptStale, panelVars, auxVars >>

\* the history_updated listener of RealtimeSession s
history_updated(s, history) ==
  /\ rt[s] = "connected"
  /\ transcript' = syncTranscriptFromHistory(history)
  /\ timers' = [i \in 1..Len(timers) |->
                  [timers[i] EXCEPT !.updated = @ \/ transcript' # transcript]]
  /\ transcriptStale' = FALSE
  /\ UNCHANGED << recording, stopPending, isActive, session, rt, startPc, onCompleteCalls,
                  lastComplete, noops, lastOutput,
                  panelVars, restVars >>
  /\ idleMs' = 0

\* the agent_end listener of RealtimeSession s
agent_end(s, output) ==
  /\ rt[s] = "connected"
  /\ Len(timers) < MaxTimers
  /\ timers' = IF output # "" THEN checkSurveyCompletion(output) ELSE timers
  /\ lastOutput' = output
  /\ UNCHANGED << ghostVars, isActive, session, transcript, rt, startPc,
                  onCompleteCalls, lastComplete, noops, panelVars, restVars >>
  /\ idleMs' = 0

\* time passes for the pending timers
tick ==
  /\ \E i \in 1..Len(timers) : timers[i].age < GraceMs
  /\ timers' = [i \in 1..Len(timers) |->
                  [timers[i] EXCEPT !.age =
                     IF @ + TickMs < GraceMs THEN @ + TickMs ELSE GraceMs]]
  /\ UNCHANGED << ghostVars, isActive, session, transcript, rt, startPc,
                  onCompleteCalls, lastComplete, noops, lastOutput, panelVars, auxVars >>

\* the oldest timer is due: its callback runs complete()
timer_fired ==
  /\ timers # << >>
  /\ Head(timers).age >= Head(timers).delay
  /\ complete("timer", Head(timers).age, Head(timers).updated,
              Head(timers).late)
  /\ timers' = IF isActive THEN outlived(Tail(timers)) ELSE Tail(timers)
  /\ UNCHANGED << ghostVars, transcript, startPc, lastOutput,
                  panelVars, auxVars >>

InitVoice ==
  /\ isActive = FALSE
  /\ session = 0
  /\ transcript = << >>
  /\ rt = [k \in Sids |-> "none"]
  /\ startPc = [k \in Sids |-> "idle"]
  /\ timers = << >>
  /\ onCompleteCalls = 0
  /\ lastComplete = [text |-> "", cause |-> "none", waited |-> 0,
                     updated |-> FALSE, late |-> FALSE, stale |-> FALSE]
  /\ noops = {}
  /\ lastOutput = "none"
  /\ recording \in BOOLEAN
  /\ stopPending = FALSE
  /\ transcriptStale = FALSE
  /\ idleMs = 0
  /\ lastInterrupt = [rt |-> "none", active |-> FALSE]
  /\ messages = << >>
  /\ delivered = {}
  /\ bSessions = [i \in 1..MaxBackendSessions |->
                    [status |-> "LIVE", score |-> 0, payment |-> "NONE"]]
  /\ results = {}
  /\ insightJob = "idle"
  /\ report = -1
  /\ pageLoading = TRUE
  /\ pageError = ""
  /\ pageInsights = -1

PriceRanges == { << 5, 20 >>, << 0, 1000 >> }

InitPanel ==
  /\ now = PageLoadMs
  /\ surveyId \in {0, 1}
  /\ \E r \in PriceRanges : minPrice = r[1] /\ maxPrice = r[2]
  /\ isFeedbackActive = FALSE
  /\ isPaused = FALSE
  /\ isStarting = FALSE
  /\ sessionStartTime = -1
  /\ sessionDuration = 0
  /\ pausedDuration = 0
  /\ pauseStartTime = -1
  /\ sessionId = 0
  /\ sessionComplete = FALSE
  /\ earnedAmount = 0
  /\ payments = << >>
  /\ route = "user"
  /\ sessionNo = 0
  /\ ended = << >>
  /\ call = "none"
  /\ messageHandlers = FALSE
  /\ isCallActive = FALSE
  /\ lastMuted = [issued |-> FALSE, muted |-> FALSE, call |-> "none"]

NextVoice ==
  \/ start
  \/ \E k \in Sids : start_session(k)
  \/ \E k \in Sids : start_connected(k)
  \/ \E k \in Sids : start_catch(k)
  \/ stop
  \/ \E s \in Sids, h \in Histories : history_updated(s, h)
  \/ \E s \in Sids, o \in Outputs : agent_end(s, o)
  \/ tick
  \/ timer_fired

\* the agent on a page opened for a survey; the panel is left alone
InitAgent ==
  /\ InitVoice
  /\ InitPanel
  /\ surveyId = 1
  /\ minPrice = 5
  /\ ~recording

SpecVoice == InitAgent /\ [][NextVoice]_vars

\* the same agent with its history kept: which stop() met a start() in
\* flight, which timers outlived their session, how old the transcript is
InitRestart ==
  /\ InitVoice
  /\ InitPanel
  /\ surveyId = 1
  /\ minPrice = 5
  /\ recording

SpecRestart == InitRestart /\ [][NextVoice]_vars

\* the body of the request ApiService.completeSession sends for a transcript
completeSessionBody(t) == [transcript |-> t]

\* ------------------------------------------------------------------------
\* The stream around the agent: errors, silence, interrupt()
\* ------------------------------------------------------------------------
\* the error listener of RealtimeSession s, for a fatal error of the
\* transport: the session delivers nothing further; the listener logs
session_error(s) ==
  /\ rt[s] = "connected"
  /\ rt' = [rt EXCEPT ![s] = "errored"]
  /\ UNCHANGED << ghostVars, isActive, session, transcript, startPc, timers,
                  onCompleteCalls, lastComplete, noops, lastOutput,
                  panelVars, auxVars >>

\* time passes for a live agent while no event arrives and no completion
\* timer is pending
idle_wait ==
  /\ isActive
  /\ timers = << >>
  /\ idleMs < MaxIdleSteps * IdleStepMs
  /\ idleMs' = idleMs + IdleStepMs
  /\ UNCHANGED << voiceVars, panelVars, restVars >>

\* interrupt(): session.interrupt() whenever this.session is set
interrupt ==
  /\ lastInterrupt' = IF session # 0
                        THEN [rt |-> rt[session], active |-> isActive]
                        ELSE lastInterrupt
  /\ UNCHANGED << voiceVars, panelVars, idleMs, chatVars, insightVars >>

NextStream ==
  \/ start
  \/ \E k \in Sids : start_session(k)
  \/ \E k \in Sids : start_connected(k)
  \/ \E k \in Sids : start_catch(k)
  \/ stop
  \/ \E s \in Sids, h \in Histories : history_updated(s, h)
  \/ \E s \in Sids, o \in Outputs : agent_end(s, o)
  \/ tick
  \/ timer_fired
  \/ \E s \in Sids : session_error(s)
  \/ idle_wait
  \/ interrupt

SpecStream == InitAgent /\ [][NextStream]_vars

\* ------------------------------------------------------------------------
\* UserExperience and FeedbackPanel
\* ------------------------------------------------------------------------
\* amounts are kept in 1/AmountScale dollars: minutes = duration / 60,
\* baseRate = (min + max) / 2, amount = baseRate * minutes / 10
AmountScale == 60 * 2 * 10

mathMin(a, b) == IF a <= b THEN a ELSE b
mathMax(a, b) == IF a >= b THEN a ELSE b

\* the amount without Math.min / Math.max: the variant the clamp is
\* measured against
calculatedAmount_unclamped(duration) == (minPrice + maxPrice) * duration

\* calculatedAmount of the earnings effect, in 1/AmountScale dollars
calculatedAmount(duration) ==
  mathMin(maxPrice * AmountScale,
          mathMax(minPrice * AmountScale, (minPrice + maxPrice) * duration))

\* the guard without the sessionComplete test: the variant the
\* once-per-session dispatch is measured against
paymentDue_always(active, duration) ==
  ~active /\ duration > 0

\* the guard of the earnings effect
paymentDue(active, duration) ==
  ~active /\ duration > 0 /\ ~sessionComplete

\* the amount the effect passes to paymentService.sendPayment
paymentAmount(duration) == calculatedAmount(duration)

\* the earnings effect of FeedbackPanel, run after a render with the props
\* isSessionActive = active and sessionDuration = duration
earningsEffect(active, duration) ==
  IF paymentDue(active, duration)
    THEN /\ earnedAmount' = calculatedAmount(duration)
         /\ sessionComplete' = TRUE
         /\ payments' = Append(payments,
                               [amount |-> paymentAmount(duration),
                                session |-> sessionNo,
                                status |-> "PENDING"])
    ELSE UNCHANGED << earnedAmount, sessionComplete, payments >>

\* the status row of the completion section
transferStatus ==
  IF sessionComplete THEN "Transferred to Wallet" ELSE "none"

\* the call and what the panel knows of it, as one value
callState ==
  [call |-> call, messageHandlers |-> messageHandlers,
   isCallActive |-> isCallActive, lastMuted |-> lastMuted]

callBecomes(c) ==
  /\ call' = c.call
  /\ messageHandlers' = c.messageHandlers
  /\ isCallActive' = c.isCallActive
  /\ lastMuted' = c.lastMuted

\* VapiService.stopCall: vapi.stop(), then messageHandlers.clear(). The SDK
\* is not part of the sources: a call that is still starting is cancelled
\* or goes on, and the call-end event of a live call reaches the handlers
\* before they are cleared or after
stopCall(c) ==
  { [c EXCEPT !.call = k, !.messageHandlers = FALSE, !.isCallActive = a] :
      k \in (IF c.call = "starting" THEN {"none", "starting"} ELSE {"none"}),
      a \in (IF c.call = "live" /\ c.messageHandlers
               THEN {FALSE, c.isCallActive} ELSE {c.isCallActive}) }

\* VapiService.startCall up to its await: the handler is added and
\* vapi.start is called; a call in progress is kept
startCall(c) ==
  [c EXCEPT !.messageHandlers = TRUE,
            !.call = IF c.call = "none" THEN "starting" ELSE c.call]

\* VapiService.setMuted
setMuted(c, muted) ==
  [c EXCEPT !.lastMuted = [issued |-> TRUE, muted |-> muted,
                           call |-> c.call]]

\* the pause/resume effect of FeedbackPanel, run in a render with the
\* given isCallActive, isPaused and isSessionActive
pauseEffect(c, callActive, paused, active) ==
  IF ~callActive THEN c
  ELSE IF paused THEN setMuted(c, TRUE)
  ELSE IF active THEN setMuted(c, FALSE)
  ELSE c

\* the effects of FeedbackPanel on the call after a render in which
\* isSessionActive went from wasActive to active and isPaused became
\* paused: the cleanup of the lifecycle effect (it reads the
\* isSessionActive of the render that created it), the stopCall of the
\* earnings effect, the lifecycle effect, the pause/resume effect
callEffects(wasActive, active, sidChanged, paused, due) ==
  LET lifecycle == wasActive # active \/ sidChanged
      afterCleanup == IF lifecycle /\ ~wasActive
                        THEN stopCall(callState) ELSE {callState}
      afterEarnings == IF due
                         THEN UNION { stopCall(c) : c \in afterCleanup }
                         ELSE afterCleanup
      afterStart == IF lifecycle /\ active
                      THEN { startCall(c) : c \in afterEarnings }
                      ELSE afterEarnings
      pauseDeps == wasActive # active \/ paused # isPaused
      afterPause == IF pauseDeps
                      THEN { pauseEffect(c, isCallActive, paused, active) :
                               c \in afterStart }
                      ELSE afterStart
  IN \E c \in afterPause : callBecomes(c)

\* the panel is unmounted: the cleanup of the lifecycle effect, which reads
\* the isSessionActive of the render that created it
unmountEffects(wasActive) ==
  IF wasActive
    THEN UNCHANGED callVars
    ELSE \E c \in stopCall(callState) : callBecomes(c)

\* handleFABClick: the surveyId check, then await apiService.getSurvey;
\* leaving the page unmounts the panel
handleFABClick ==
  /\ route = "user"
  /\ ~isFeedbackActive
  /\ ~isStarting
  /\ IF surveyId = 0
       THEN /\ route' = "admin"
            /\ unmountEffects(isFeedbackActive)
            /\ UNCHANGED isStarting
       ELSE /\ isStarting' = TRUE
            /\ UNCHANGED << route, callVars >>
  /\ UNCHANGED << now, surveyId, minPrice, maxPrice, isFeedbackActive,
                  isPaused, sessionStartTime, sessionDuration,
                  pausedDuration, pauseStartTime, sessionId,
                  sessionComplete, earnedAmount, payments, sessionNo, ended,
                  voiceVars, auxVars >>

\* handleFABClick: the survey arrived; the session starts
handleFABClick_loaded ==
  /\ route = "user"
  /\ isStarting
  /\ isFeedbackActive \/ sessionNo < MaxSessions
  /\ sessionNo' = IF isFeedbackActive THEN sessionNo ELSE sessionNo + 1
  /\ sessionId' = sessionNo'
  /\ isFeedbackActive' = TRUE
  /\ sessionStartTime' = now
  /\ pausedDuration' = 0
  /\ sessionDuration' = 0
  /\ isStarting' = FALSE
  /\ earningsEffect(TRUE, 0)
  /\ callEffects(isFeedbackActive, TRUE, sessionId' # sessionId, isPaused,
                 FALSE)
  /\ UNCHANGED << now, surveyId, minPrice, maxPrice, isPaused,
                  pauseStartTime, route, ended, voiceVars, auxVars >>

\* handleFABClick: getSurvey failed; alert, finally
handleFABClick_failed ==
  /\ route = "user"
  /\ isStarting
  /\ isStarting' = FALSE
  /\ UNCHANGED << now, surveyId, minPrice, maxPrice, isFeedbackActive,
                  isPaused, sessionStartTime, sessionDuration,
                  pausedDuration, pauseStartTime, sessionId,
                  sessionComplete, earnedAmount, payments, route, sessionNo,
                  ended, voiceVars, auxVars,
                  callVars >>

\* handleFeedbackStart: the "start" button of MockWebsite
handleFeedbackStart ==
  /\ route = "user"
  /\ isFeedbackActive \/ sessionNo < MaxSessions
  /\ sessionNo' = IF isFeedbackActive THEN sessionNo ELSE sessionNo + 1
  /\ isFeedbackActive' = TRUE
  /\ sessionStartTime' = now
  /\ pausedDuration' = 0
  /\ sessionDuration' = 0
  /\ earningsEffect(TRUE, 0)
  /\ callEffects(isFeedbackActive, TRUE, FALSE, isPaused, FALSE)
  /\ UNCHANGED << now, surveyId, minPrice, maxPrice, isPaused, isStarting,
                  pauseStartTime, sessionId, route, ended, voiceVars, auxVars >>

\* the session controls are rendered
controlsShown == route = "user" /\ isFeedbackActive /\ ~sessionComplete

handlePause ==
  /\ controlsShown
  /\ ~isPaused
  /\ isPaused' = TRUE
  /\ pauseStartTime' = now
  /\ callEffects(isFeedbackActive, isFeedbackActive, FALSE, TRUE, FALSE)
  /\ UNCHANGED << now, surveyId, minPrice, maxPrice, isFeedbackActive,
                  isStarting, sessionStartTime, sessionDuration,
                  pausedDuration, sessionId, sessionComplete, earnedAmount,
                  payments, route, sessionNo, ended, voiceVars, auxVars >>

handleResume ==
  /\ controlsShown
  /\ isPaused
  /\ pausedDuration' = IF pauseStartTime > 0
                         THEN pausedDuration + (now - pauseStartTime)
                         ELSE pausedDuration
  /\ isPaused' = FALSE
  /\ pauseStartTime' = -1
  /\ callEffects(isFeedbackActive, isFeedbackActive, FALSE, FALSE, FALSE)
  /\ UNCHANGED << now, surveyId, minPrice, maxPrice, isFeedbackActive,
                  isStarting, sessionStartTime, sessionDuration, sessionId,
                  sessionComplete, earnedAmount, payments, route, sessionNo,
                  ended, voiceVars, auxVars >>

\* handleEnd, and the earnings effect of the render that follows
handleEnd ==
  /\ controlsShown
  /\ isFeedbackActive' = FALSE
  /\ ended' = Append(ended, [session |-> sessionNo,
                             duration |-> sessionDuration])
  /\ earningsEffect(FALSE, sessionDuration)
  /\ callEffects(TRUE, FALSE, FALSE, isPaused,
                 paymentDue(FALSE, sessionDuration))
  /\ UNCHANGED << now, surveyId, minPrice, maxPrice, isPaused, isStarting,
                  sessionStartTime, sessionDuration, pausedDuration,
                  pauseStartTime, sessionId, route, sessionNo, voiceVars, auxVars >>

\* a render of FeedbackPanel: formatTimeShort is a new function in every
\* render, so the earnings effect runs again
rerender ==
  /\ route = "user"
  /\ earningsEffect(isFeedbackActive, sessionDuration)
  /\ callEffects(isFeedbackActive, isFeedbackActive, FALSE, isPaused,
                 paymentDue(isFeedbackActive, sessionDuration))
  /\ UNCHANGED << now, surveyId, minPrice, maxPrice, isFeedbackActive,
                  isPaused, isStarting, sessionStartTime, sessionDuration,
                  pausedDuration, pauseStartTime, sessionId, route,
                  sessionNo, ended, voiceVars, auxVars >>

\* elapsed of the duration interval
elapsedSeconds(t, paused) == (t - sessionStartTime - paused) \div 1000

\* time passes: the one-second intervals of UserExperience run
advance ==
  /\ route = "user"
  /\ now < PageLoadMs + MaxPanelTicks * PanelTickMs
  /\ now' = now + PanelTickMs
  /\ IF isPaused /\ pauseStartTime > 0
       THEN /\ pausedDuration' = pausedDuration + (now' - pauseStartTime)
            /\ pauseStartTime' = now'
       ELSE UNCHANGED << pausedDuration, pauseStartTime >>
  /\ sessionDuration' =
       IF isFeedbackActive /\ ~isPaused /\ sessionStartTime > 0
         THEN elapsedSeconds(now', pausedDuration)
         ELSE sessionDuration
  /\ earningsEffect(isFeedbackActive, sessionDuration')
  /\ callEffects(isFeedbackActive, isFeedbackActive, FALSE, isPaused,
                 paymentDue(isFeedbackActive, sessionDuration'))
  /\ UNCHANGED << surveyId, minPrice, maxPrice, isFeedbackActive, isPaused,
                  isStarting, sessionStartTime, sessionId, route, sessionNo,
                  ended, voiceVars, auxVars >>

\* the fetch of paymentService.sendPayment ends: a successful response, a
\* response with success = false, or a rejection (network error, !response.ok)
PaymentOutcomes == {"success", "unsuccessful", "rejected"}

payment_resolved(i, outcome) ==
  /\ i \in 1..Len(payments)
  /\ payments[i].status = "PENDING"
  /\ payments' = [payments EXCEPT ![i].status =
                    IF outcome = "success" THEN "SUCCESS" ELSE "FAILED"]
  /\ UNCHANGED << now, surveyId, minPrice, maxPrice, isFeedbackActive,
                  isPaused, isStarting, sessionStartTime, sessionDuration,
                  pausedDuration, pauseStartTime, sessionId,
                  sessionComplete, earnedAmount, route, sessionNo, ended,
                  voiceVars, auxVars,
                  callVars >>

NextPanel ==
  \/ handleFABClick
  \/ handleFABClick_loaded
  \/ handleFABClick_failed
  \/ handleFeedbackStart
  \/ handlePause
  \/ handleResume
  \/ handleEnd
  \/ rerender
  \/ advance
  \/ \E i \in 1..MaxSessions, o \in PaymentOutcomes : payment_resolved(i, o)

\* the page as it is mounted; the agent is left alone
InitPage ==
  /\ InitVoice
  /\ InitPanel
  /\ ~recording

SpecPanel == InitPage /\ [][NextPanel]_vars

\* ------------------------------------------------------------------------
\* The voice call of the panel
\* ------------------------------------------------------------------------
Greeting == "Hi! I'm ready to listen."
ConnectError == "Sorry, I'm having trouble connecting"

\* the call is joined: the SDK emits call-start to the handlers, vapi.start
\* resolves and initializeVapi goes on; isCallActive changed, so the
\* pause/resume effect runs
call_started ==
  /\ call = "starting"
  /\ LET active == messageHandlers \/ isCallActive
         c == [callState EXCEPT !.call = "live", !.isCallActive = active]
     IN callBecomes(IF active # isCallActive
                      THEN pauseEffect(c, active, isPaused, isFeedbackActive)
                      ELSE c)
  /\ messages' = << [type |-> "ai", text |-> Greeting] >>
  /\ UNCHANGED << now, surveyId, minPrice, maxPrice, isFeedbackActive,
                  isPaused, isStarting, sessionStartTime, sessionDuration,
                  pausedDuration, pauseStartTime, sessionId,
                  sessionComplete, earnedAmount, payments, route, sessionNo,
                  ended, voiceVars, idleMs, lastInterrupt, delivered,
                  insightVars >>

\* vapi.start rejects: the catch of initializeVapi
call_failed ==
  /\ call = "starting"
  /\ call' = "none"
  /\ messages' = << [type |-> "ai", text |-> ConnectError] >>
  /\ UNCHANGED << now, surveyId, minPrice, maxPrice, isFeedbackActive,
                  isPaused, isStarting, sessionStartTime, sessionDuration,
                  pausedDuration, pauseStartTime, sessionId,
                  sessionComplete, earnedAmount, payments, route, sessionNo,
                  ended, messageHandlers, isCallActive, lastMuted,
                  voiceVars, idleMs, lastInterrupt, delivered, insightVars >>

\* the call ends on the other side: the SDK emits call-end to the handlers
call_ended ==
  /\ call = "live"
  /\ call' = "none"
  /\ isCallActive' = IF messageHandlers THEN FALSE ELSE isCallActive
  /\ UNCHANGED << now, surveyId, minPrice, maxPrice, isFeedbackActive,
                  isPaused, isStarting, sessionStartTime, sessionDuration,
                  pausedDuration, pauseStartTime, sessionId,
                  sessionComplete, earnedAmount, payments, route, sessionNo,
                  ended, messageHandlers, lastMuted, voiceVars, auxVars >>

NextCall ==
  \/ NextPanel
  \/ call_started
  \/ call_failed
  \/ call_ended

\* the page opened for a survey
InitCall ==
  /\ InitPage
  /\ surveyId = 1
  /\ minPrice = 5

SpecCall == InitCall /\ [][NextCall]_vars

\* ------------------------------------------------------------------------
\* The message list of FeedbackPanel
\* ------------------------------------------------------------------------
\* a VapiMessage; "" stands for an absent field. seq and final are the
\* utterance number and the finality the sender knows; the handler reads
\* neither
VapiMsg(mtype, mrole, mtranscript, mcontent, mresult, mseq, mfinal) ==
  [type |-> mtype, role |-> mrole, transcript |-> mtranscript,
   content |-> mcontent, message |-> "", text |-> "", result |-> mresult,
   output |-> "", seq |-> mseq, final |-> mfinal]

VapiInputs ==
  { VapiMsg("transcript", "user", "I like", "", "", 1, FALSE),
    VapiMsg("transcript", "user", " I like it ", "", "", 1, TRUE),
    VapiMsg("transcript", "assistant", "Great, thanks", "", "", 2, TRUE),
    VapiMsg("function-call-result", "", "", "", "Saved", 3, TRUE),
    VapiMsg("speech-start", "", "", "", "", 0, FALSE) }

\* getTextContent: the first non-empty of transcript, content, message, text
getTextContent(msg) ==
  IF msg.transcript # "" THEN msg.transcript
  ELSE IF msg.content # "" THEN msg.content
  ELSE IF msg.message # "" THEN msg.message
  ELSE msg.text

isUserMessage(msg) ==
  \/ msg.role = "user"
  \/ (msg.type = "transcript" /\ msg.role = "")
  \/ msg.type = "user-transcript"
  \/ msg.type = "user-message"

isAssistantMessage(msg) ==
  \/ msg.role = "assistant"
  \/ msg.type = "assistant-message"
  \/ msg.type = "assistant-response"
  \/ (msg.type = "function-call-result" /\ getTextContent(msg) # "")

\* the updater of the user and assistant branches: the entry is dropped
\* when the last entry has the same type and text
appendUnlessLast(prev, type, text) ==
  IF /\ Len(prev) > 0
     /\ prev[Len(prev)].type = type
     /\ prev[Len(prev)].text = text
    THEN prev
    ELSE Append(prev, [type |-> type, text |-> text])

\* resultText of the function-call branch (string results)
resultText(msg) == IF msg.result # "" THEN msg.result ELSE msg.output

\* the message list after handleVapiMessage(msg): the three setMessages
\* updaters, applied in order
messagesAfter(prev, msg) ==
  LET textContent == trim(getTextContent(msg))
      afterUser ==
        IF isUserMessage(msg) /\ textContent # ""
          THEN appendUnlessLast(prev, "user", textContent) ELSE prev
      afterAssistant ==
        IF isAssistantMessage(msg) /\ textContent # ""
          THEN appendUnlessLast(afterUser, "ai", textContent) ELSE afterUser
  IN IF /\ msg.type \in {"function-call", "function-call-result"}
        /\ (msg.result # "" \/ msg.output # "")
        /\ trim(resultText(msg)) # ""
       THEN Append(afterAssistant,
                   [type |-> "ai", text |-> trim(resultText(msg))])
       ELSE afterAssistant

handleVapiMessage(msg) ==
  /\ Len(messages) < MaxMessages
  /\ messages' = messagesAfter(messages, msg)
  /\ delivered' = delivered \cup {msg}
  /\ UNCHANGED << voiceVars, panelVars, idleMs, lastInterrupt, insightVars >>

NextChat ==
  \E msg \in VapiInputs : handleVapiMessage(msg)

SpecChat == InitPage /\ [][NextChat]_vars

\* ------------------------------------------------------------------------
\* Completion on the backend, the insight job, and InsightsPage
\* ------------------------------------------------------------------------
Scores == {40, 85}

completedSessions ==
  { i \in 1..MaxBackendSessions : bSessions[i].status = "COMPLETED" }

\* POST /session/{id}/complete: evaluation and payment, the result is
\* returned, the insight job is handed off
completeOnBackend(i, score, paid) ==
  /\ bSessions[i].status = "LIVE"
  /\ bSessions' = [bSessions EXCEPT ![i] =
                     [status |-> "COMPLETED", score |-> score,
                      payment |-> IF paid THEN "SUCCESS" ELSE "FAILED"]]
  /\ results' = results \cup {i}
  /\ insightJob' = "queued"
  /\ UNCHANGED << report, pageLoading, pageError, pageInsights, voiceVars,
                  panelVars, idleMs, lastInterrupt, chatVars >>

\* the insight job ran: the report covers the sessions completed so far
insight_job_done ==
  /\ insightJob = "queued"
  /\ insightJob' = "idle"
  /\ report' = Cardinality(completedSessions)
  /\ UNCHANGED << bSessions, results, pageLoading, pageError, pageInsights,
                  voiceVars, panelVars, idleMs, lastInterrupt, chatVars >>

\* the insight job failed: logged, the report stays as it was
insight_job_failed ==
  /\ insightJob = "queued"
  /\ insightJob' = "idle"
  /\ UNCHANGED << bSessions, results, report, pageLoading, pageError,
                  pageInsights, voiceVars, panelVars, idleMs, lastInterrupt,
                  chatVars >>

\* what a run of loadInsights can meet: getSurvey throws, the insights
\* response is not ok, or the report arrives
LoadOutcomes == {"surveyError", "notOk", "ok"}

\* a loadInsights whose catch block sets no error: the variant the error
\* state is measured against
loadInsightsResult_silent(outcome) ==
  [error |-> "",
   insights |-> IF outcome = "ok" THEN report ELSE pageInsights]

\* error and insights after loadInsights
loadInsightsResult(outcome) ==
  IF outcome = "ok"
    THEN [error |-> "", insights |-> report]
    ELSE [error |-> IF outcome = "notOk" THEN "Failed to load insights"
                                         ELSE "Failed to fetch survey",
          insights |-> pageInsights]

\* InsightsPage.loadInsights, with its finally block
loadInsights(outcome) ==
  /\ outcome = "ok" => report # -1
  /\ pageError' = loadInsightsResult(outcome).error
  /\ pageInsights' = loadInsightsResult(outcome).insights
  /\ pageLoading' = FALSE
  /\ UNCHANGED << bSessions, results, insightJob, report, voiceVars,
                  panelVars, idleMs, lastInterrupt, chatVars >>

NextInsights ==
  \/ \E i \in 1..MaxBackendSessions, sc \in Scores, paid \in BOOLEAN :
       completeOnBackend(i, sc, paid)
  \/ insight_job_done
  \/ insight_job_failed
  \/ \E o \in LoadOutcomes : loadInsights(o)

SpecInsights == InitPage /\ [][NextInsights]_vars

\* ------------------------------------------------------------------------
\* Properties of the voice agent (SpecVoice)
\* ------------------------------------------------------------------------
\* a text contains a closing phrase, whatever the case of its letters
HasClosingPhrase(text) ==
  \E n \in 1..Len(ClosingPhrases) :
    \E i \in 1..Len(text) :
      \E j \in i..Len(text) :
        toLowerCase(SubSeq(text, i, j)) = ClosingPhrases[n]

ClosingOutputs == { o \in Outputs : HasClosingPhrase(o) }

OnlyFirstStart == \A k \in Sids : k > 1 => startPc[k] = "idle"

\* C1: in one live phase of the agent the body of complete() runs at most
\* once, however often stop() is called and the completion timers fire; an
\* end trigger that reaches a live agent always completes it (it never
\* returns at the guard), and the completion ends the live phase, so that
\* onComplete is delivered exactly once for that phase.
C1_CompleteOnce ==
  /\ onCompleteCalls <= 1
  /\ isActive => (onCompleteCalls = 0 /\ noops = {})

\* C1 witness: the only session was completed by stop(), and afterwards its
\* closing-phrase timer fired and stop() was called again, both returning at
\* the guard of complete().
C1_Witness ==
  /\ OnlyFirstStart
  /\ onCompleteCalls = 1
  /\ lastComplete.cause = "stop"
  /\ noops = {"stop", "timer"}

\* C4: a completion timer is scheduled only by an agent_end event whose
\* output contains a closing phrase, never by a history update (which is
\* where in-flight partial utterances arrive); a completion by the timer
\* happens only once the grace period has elapsed; and every completion
\* hands onComplete the text of the transcript as it is at that moment, so
\* with the updates that arrived during the grace period.
C4_Debounce ==
  /\ [](lastComplete.cause = "timer" => lastComplete.waited >= GraceMs)
  /\ [][Len(timers') > Len(timers)
          => /\ transcript' = transcript
             /\ lastOutput' \in ClosingOutputs]_vars
  /\ [][onCompleteCalls' > onCompleteCalls
          => lastComplete'.text = transcriptText(transcript)]_vars

\* C4 witness: a completion by the timer whose transcript changed while the
\* timer was pending.
C4_Witness ==
  /\ lastComplete.cause = "timer"
  /\ lastComplete.updated
  /\ lastComplete.waited >= GraceMs
  /\ lastComplete.text # ""

\* C5: stop() on a live agent ends the live phase at once; an agent_end
\* output that contains a closing phrase (as a substring, in any case)
\* schedules the completion; an output without one schedules nothing and
\* leaves the live phase as it is.
C5_Triggers ==
  /\ [][(stop /\ isActive)
          => /\ ~isActive'
             /\ onCompleteCalls' = onCompleteCalls + 1
             /\ lastComplete'.cause = "stop"]_vars
  /\ [][lastOutput' # lastOutput
          => /\ isActive' = isActive
             /\ onCompleteCalls' = onCompleteCalls
             /\ IF lastOutput' \in ClosingOutputs
                  THEN Len(timers') = Len(timers) + 1
                  ELSE timers' = timers]_vars

\* C5 witness: a session completed by the timer of an output that contains
\* a closing phrase in other letter case and inside a longer sentence, with
\* stop() never called.
C5_Witness ==
  /\ OnlyFirstStart
  /\ lastComplete.cause = "timer"
  /\ lastOutput \in ClosingOutputs
  /\ lastOutput \notin { ClosingPhrases[n] : n \in 1..Len(ClosingPhrases) }
  /\ "stop" \notin noops

\* C6 (as claimed): once onComplete has been delivered and the agent is not
\* live, the transcript does not change any more.
C6_FrozenAfterComplete ==
  [][(lastComplete.cause # "none" /\ ~isActive)
       => transcript' = transcript]_vars

\* phase of the session created by the k-th start()
Phase(k) ==
  IF startPc[k] = "idle" THEN "NONE"
  ELSE IF rt[k] = "closed" THEN "COMPLETED"
  ELSE IF startPc[k] = "failed" THEN "FAILED"
  ELSE IF startPc[k] = "token" THEN "CREATED"
  ELSE IF startPc[k] = "connect" THEN "READY"
  ELSE "LIVE"

PhaseSteps ==
  { << "NONE", "CREATED" >>, << "CREATED", "READY" >>, << "READY", "LIVE" >>,
    << "LIVE", "COMPLETED" >>, << "LIVE", "FAILED" >>,
    << "CREATED", "FAILED" >>, << "READY", "FAILED" >> }

\* C10 (as claimed): the phase of a session changes only along the listed
\* transitions (a start() that throws counts as a failure of the session);
\* COMPLETED and FAILED are left by no step.
C10_PhaseOrder ==
  [][\A k \in Sids :
       Phase(k)' # Phase(k) => << Phase(k), Phase(k)' >> \in PhaseSteps]_vars

\* C19 (as claimed): a completion with a transcript shorter than the
\* minimum is delivered, and what is sent for evaluation carries a
\* low-signal flag.
C19_LowSignalFlag ==
  (lastComplete.cause # "none" /\ Len(lastComplete.text) < MinTranscriptChars)
    => "lowSignal" \in DOMAIN completeSessionBody(lastComplete.text)

\* the RealtimeSession objects that are connecting or connected
openSessions == { k \in Sids : rt[k] \in {"connecting", "connected"} }

\* C20 (as claimed): at most one RealtimeSession is connecting or
\* connected at any time.
C20_OneSession ==
  Cardinality(openSessions) <= 1

\* ------------------------------------------------------------------------
\* Properties of the feedback panel (SpecPanel)
\* ------------------------------------------------------------------------
PaymentsOf(n) == { i \in 1..Len(payments) : payments[i].session = n }

\* C2 (as claimed): every ended session has exactly one payment dispatch.
C2_OneDispatchPerEndedSession ==
  \A e \in 1..Len(ended) : Cardinality(PaymentsOf(ended[e].session)) = 1

\* C3: the amount shown as earned and the amount of every payment sent are
\* the same value, and it lies in [minPrice, maxPrice].
C3_Clamped ==
  /\ sessionComplete
       => /\ earnedAmount >= minPrice * AmountScale
          /\ earnedAmount <= maxPrice * AmountScale
  /\ \A i \in 1..Len(payments) :
       /\ payments[i].amount = earnedAmount
       /\ payments[i].amount >= minPrice * AmountScale
       /\ payments[i].amount <= maxPrice * AmountScale

\* C3 witness: a session whose unclamped amount is above maxPrice was paid
\* exactly maxPrice.
C3_Witness ==
  /\ sessionComplete
  /\ (minPrice + maxPrice) * sessionDuration > maxPrice * AmountScale
  /\ Len(payments) = 1
  /\ payments[1].amount = maxPrice * AmountScale
  /\ earnedAmount = maxPrice * AmountScale

\* C7: no session has more than one payment dispatched for it; once the
\* panel shows the session as complete, running the end-of-session effect
\* again dispatches nothing and keeps the stored amount; and a payment goes
\* from PENDING to SUCCESS or FAILED once and then stays.
C7_AtMostOnePayment ==
  /\ [](\A n \in 1..MaxSessions : Cardinality(PaymentsOf(n)) <= 1)
  /\ [][sessionComplete
          => /\ Len(payments') = Len(payments)
             /\ earnedAmount' = earnedAmount
             /\ sessionComplete']_vars
  /\ [][\A i \in 1..Len(payments) :
          /\ payments'[i].amount = payments[i].amount
          /\ payments'[i].status # payments[i].status
               => /\ payments[i].status = "PENDING"
                  /\ payments'[i].status \in {"SUCCESS", "FAILED"}]_vars

\* C7 witness: a completed session whose payment has resolved, with the
\* panel rendered again afterwards (time has passed since the end).
C7_Witness ==
  /\ sessionComplete
  /\ Len(payments) = 1
  /\ payments[1].status \in {"SUCCESS", "FAILED"}
  /\ Len(ended) = 1
  /\ now > sessionStartTime + 1000 * ended[1].duration

\* C8 (as claimed): while the completion screen is shown, no payment of the
\* panel is still pending.
C8_ResultAfterPayment ==
  sessionComplete => \A i \in 1..Len(payments) : payments[i].status # "PENDING"

\* C9 (as claimed): a failed payment is not reported as a transfer.
C9_FailureReported ==
  \A i \in 1..Len(payments) :
    payments[i].status = "FAILED" => transferStatus # "Transferred to Wallet"

\* C26 (as claimed): every session that was ended has reached the
\* completion screen and has exactly one payment dispatched for it, of the
\* amount computed from its own duration.
C26_EveryEndedSessionPaid ==
  \A e \in 1..Len(ended) :
    /\ sessionComplete
    /\ \E i \in 1..Len(payments) :
         /\ PaymentsOf(ended[e].session) = {i}
         /\ payments[i].amount = calculatedAmount(ended[e].duration)

\* C27 (as claimed): isPaused is set only while a feedback session is
\* active, so a session that starts is not paused.
C27_PausedOnlyWhileActive ==
  isPaused => isFeedbackActive

\* C28 (as claimed): a feedback session is active only with a surveyId
\* present and a session id assigned.
C28_ActiveOnlyForSurvey ==
  isFeedbackActive => (surveyId # 0 /\ sessionId # 0)

\* ------------------------------------------------------------------------
\* Properties of an agent that is stopped and started again (SpecRestart)
\* ------------------------------------------------------------------------
\* C21 (as claimed): a stop() issued while start() is awaiting the token or
\* the connection prevails: unless start() is called again, the agent is
\* never connected and active afterwards.
C21_StopPrevails ==
  stopPending => ~(isActive /\ session # 0 /\ rt[session] = "connected")

\* C22 (as claimed): the completion timer of a closing phrase never
\* completes a later session: no onComplete comes from a timer that was
\* set in a session completed before.
C22_TimerOwnSession == lastComplete.cause = "timer" => ~lastComplete.late

\* C23 (as claimed): a session completed before any history update of its
\* own hands an empty transcript to onComplete, not the utterances left by
\* the session before.
C23_OwnTranscript == lastComplete.stale => lastComplete.text = ""

\* ------------------------------------------------------------------------
\* Properties of the voice call of the panel (SpecCall)
\* ------------------------------------------------------------------------
\* C24 (as claimed): whenever the panel's session is not active, after End
\* Session of any session, also one ended with sessionDuration 0 or before
\* startCall has resolved, the voice call has been stopped: no call is
\* starting or live.
C24_CallStoppedWithSession == ~isFeedbackActive => call = "none"

\* C25 (as claimed): isCallActive is true only while a Vapi call is in
\* progress, and every setMuted was issued while a call was live, also in
\* a later session on the same panel.
C25_CallActiveOnlyInCall ==
  /\ isCallActive => call = "live"
  /\ lastMuted.issued => lastMuted.call = "live"

\* ------------------------------------------------------------------------
\* Properties of the stream around the agent (SpecStream)
\* ------------------------------------------------------------------------
\* C11 (as claimed): after a fatal error of its stream the agent is not
\* live on that session any more.
C11_ErrorLeavesLive ==
  \A s \in Sids : (rt[s] = "errored" /\ session = s) => ~isActive

\* C12 (as claimed): a live agent is never silent for longer than the idle
\* duration; the silence ends the live phase.
C12_IdleCompletes ==
  isActive => idleMs <= IdleLimitMs

\* C16 (as claimed): interrupt() reaches the session only while the agent
\* is live on a connected session.
C16_InterruptOnlyLive ==
  lastInterrupt.rt # "none"
    => (lastInterrupt.rt = "connected" /\ lastInterrupt.active)

\* ------------------------------------------------------------------------
\* Properties of the message list (SpecChat)
\* ------------------------------------------------------------------------
\* the utterances of the conversation: the sequence numbers of the user
\* and assistant messages
Utterances ==
  { m.seq : m \in { x \in VapiInputs :
                      isUserMessage(x) \/ isAssistantMessage(x) } }

UserUtterances == { m.seq : m \in { x \in VapiInputs : isUserMessage(x) } }

\* the texts an utterance can appear with in the list
Versions(q) ==
  { trim(getTextContent(m)) : m \in { x \in VapiInputs : x.seq = q } }

\* the texts of the final records
FinalTexts ==
  { trim(getTextContent(m)) :
      m \in { x \in VapiInputs : x.final /\ x.seq \in Utterances } }

\* the utterance number of a final text
SeqOf(t) == CHOOSE q \in Utterances : t \in Versions(q)

\* the texts of the list that are final texts, in list order
RECURSIVE FinalEntries(_)
FinalEntries(ms) ==
  IF ms = << >> THEN << >>
  ELSE IF Head(ms).text \in FinalTexts
         THEN << Head(ms).text >> \o FinalEntries(Tail(ms))
         ELSE FinalEntries(Tail(ms))

\* C13 (as claimed): whatever the order of delivery, the final records of
\* the list are those of the delivered user and assistant messages, once
\* each, in the order of their sequence numbers.
C13_OrderIndependent ==
  LET fs == FinalEntries(messages)
  IN /\ \A i \in 1..Len(fs) : \A j \in 1..Len(fs) :
          i < j => SeqOf(fs[i]) < SeqOf(fs[j])
     /\ \A m \in delivered :
          (m.final /\ m.seq \in Utterances)
            => \E i \in 1..Len(fs) : SeqOf(fs[i]) = m.seq

\* C14 (as claimed): the list never holds two consecutive entries with the
\* same type and text.
C14_NoConsecutiveRepeat ==
  \A i \in 1..(Len(messages) - 1) : messages[i] # messages[i + 1]

\* C15 (as claimed): the list holds at most one entry for each utterance
\* of the user, whatever partial versions of it were delivered.
C15_OneEntryPerUtterance ==
  \A q \in UserUtterances :
    Cardinality({ i \in 1..Len(messages) : messages[i].text \in Versions(q) }) <= 1

====
